---- MODULE Spec2Model ----
(***************************************************************************)
(* Model of usvg's text flattening (crates/usvg/src/text/flatten.rs) and   *)
(* of the COLR paint interpreter GlyphPainter (crates/usvg/src/text/       *)
(* colr.rs).                                                               *)
(*                                                                         *)
(* Two state machines share the module:                                    *)
(*   - flatten(): the span loop and the glyph loop, one action per loop    *)
(*     iteration (SpecFlatten, SpecResolve);                               *)
(*   - GlyphPainter driven by the font's paint traversal, one action per   *)
(*     ColorPainter callback (SpecPaint).                                  *)
(***************************************************************************)
EXTENDS Integers, Sequences, FiniteSets, TLC

\* ------------------------------------------------------------------ bounds
\* Number of spans of the text and number of glyphs of the text.
MaxSpans == 2
MaxGlyphs == 3

\* ======================================================================
\*                                flatten
\* ======================================================================

VARIABLES
    text,           \* text.layouted, the spans read so far (input)
    new_children,   \* flatten's new_children
    span_builder,   \* flatten's span_builder: the open outline batch
    fpc,            \* position in flatten: "spans" | "glyphs" | "done"
    group           \* the children of the returned Group

flattenVars == <<text, new_children, span_builder, fpc, group>>

\* The four lookups of the cache, in no particular order.
Representations == {"colr", "svg", "raster", "outline"}

\* Fonts' glyphs as seen by the cache: the set of lookups that return Some.
\* "outline" stands for fontdb_outline(..) and p.transform(..) both
\* returning Some (a non-empty path).
RepAvail ==
    { {}, {"outline"}, {"colr", "outline"}, {"svg", "raster", "outline"},
      {"raster"} }

\* Decorations of a span: which of overline / underline / line_through are Some.
Decorations ==
    { [overline |-> FALSE, underline |-> FALSE, line_through |-> FALSE],
      [overline |-> TRUE,  underline |-> FALSE, line_through |-> TRUE],
      [overline |-> FALSE, underline |-> TRUE,  line_through |-> FALSE],
      [overline |-> TRUE,  underline |-> TRUE,  line_through |-> TRUE] }

NoDecoration == [overline |-> FALSE, underline |-> FALSE, line_through |-> FALSE]

\* A node of new_children.  kind: "overline" | "underline" | "line_through"
\* (decoration paths), "path" (a flushed outline batch), "group" (a colr, svg
\* or raster glyph).  glyphs: the indexes, within the span, of the glyphs the
\* node was made from.
Node(kind, span, rep, glyphs) ==
    [kind |-> kind, span |-> span, rep |-> rep, glyphs |-> glyphs]

\* The if / else-if chain of the glyph loop as the mutation "outline before
\* everything else".
ResolveGlyphOutlineFirst(avail) ==
    IF "outline" \in avail THEN "outline"
    ELSE IF "colr" \in avail THEN "colr"
    ELSE IF "svg" \in avail THEN "svg"
    ELSE IF "raster" \in avail THEN "raster"
    ELSE "none"

\* The if / else-if chain of the glyph loop: which branch is taken.
ResolveGlyph(avail) ==
    IF "colr" \in avail THEN "colr"
    ELSE IF "svg" \in avail THEN "svg"
    ELSE IF "raster" \in avail THEN "raster"
    ELSE IF "outline" \in avail THEN "outline"
    ELSE "none"

\* push_outline_paths without the mem::replace: the batch stays open.
PushOutlinePathsKeep(span, builder, children) ==
    [ builder  |-> builder,
      children |-> IF builder = << >>
                   THEN children
                   ELSE Append(children, Node("path", span, "outline", builder)) ]

\* push_outline_paths: the builder is replaced by a fresh one; a path node is
\* pushed when the old builder finishes to a path (it holds some outline).
PushOutlinePaths(span, builder, children) ==
    [ builder  |-> << >>,
      children |-> IF builder = << >>
                   THEN children
                   ELSE Append(children, Node("path", span, "outline", builder)) ]

TotalGlyphs ==
    LET RECURSIVE Sum(_)
        Sum(i) == IF i = 0 THEN 0 ELSE Len(text[i].glyphs) + Sum(i - 1)
    IN  Sum(Len(text))

\* for span in &text.layouted { overline; underline; span_builder = new() ...
BeginSpan(deco) ==
    /\ fpc = "spans"
    /\ Len(text) < MaxSpans
    /\ LET s  == Len(text) + 1
           c1 == IF deco.overline
                 THEN Append(new_children, Node("overline", s, "deco", << >>))
                 ELSE new_children
           c2 == IF deco.underline
                 THEN Append(c1, Node("underline", s, "deco", << >>))
                 ELSE c1
       IN  /\ text' = Append(text, [overline |-> deco.overline,
                                    underline |-> deco.underline,
                                    line_through |-> deco.line_through,
                                    glyphs |-> << >>])
           /\ new_children' = c2
    /\ span_builder' = << >>
    /\ fpc' = "glyphs"
    /\ UNCHANGED group

\* The colr branch of the glyph loop.
ColrBranch(s, g, builder, children) ==
    [ builder  |-> builder,
      children |-> Append(children, Node("group", s, "colr", <<g>>)) ]

\* The svg and raster branches of the glyph loop.
FlushBranch(s, g, rep, builder, children) ==
    LET flushed == PushOutlinePaths(s, builder, children)
    IN  [ builder  |-> flushed.builder,
          children |-> Append(flushed.children, Node("group", s, rep, <<g>>)) ]

\* The outline branch of the glyph loop.
OutlineBranch(g, builder, children) ==
    [ builder |-> Append(builder, g), children |-> children ]

\* One iteration of: for glyph in &span.positioned_glyphs { ... }
GlyphBody(s, g, avail, builder, children) ==
    LET rep == ResolveGlyph(avail)
    IN  CASE rep = "colr"    -> ColrBranch(s, g, builder, children)
          [] rep = "svg"     -> FlushBranch(s, g, "svg", builder, children)
          [] rep = "raster"  -> FlushBranch(s, g, "raster", builder, children)
          [] rep = "outline" -> OutlineBranch(g, builder, children)
          [] OTHER           -> [builder |-> builder, children |-> children]

Glyph(avail) ==
    /\ fpc = "glyphs"
    /\ TotalGlyphs < MaxGlyphs
    /\ LET s == Len(text)
           g == Len(text[s].glyphs) + 1
           r == GlyphBody(s, g, avail, span_builder, new_children)
       IN  /\ text' = [text EXCEPT ![s].glyphs = Append(@, avail)]
           /\ span_builder' = r.builder
           /\ new_children' = r.children
    /\ UNCHANGED <<fpc, group>>

\* The end of the glyph loop with line_through pushed before the final
\* push_outline_paths.
EndSpanLineThroughFirst ==
    /\ fpc = "glyphs"
    /\ LET s == Len(text)
           c1 == IF text[s].line_through
                 THEN Append(new_children, Node("line_through", s, "deco", << >>))
                 ELSE new_children
           flushed == PushOutlinePaths(s, span_builder, c1)
       IN  /\ span_builder' = flushed.builder
           /\ new_children' = flushed.children
    /\ fpc' = "spans"
    /\ UNCHANGED <<text, group>>

\* End of the glyph loop: the final push_outline_paths and line_through.
EndSpan ==
    /\ fpc = "glyphs"
    /\ LET s == Len(text)
           flushed == PushOutlinePaths(s, span_builder, new_children)
       IN  /\ span_builder' = flushed.builder
           /\ new_children' =
                 IF text[s].line_through
                 THEN Append(flushed.children, Node("line_through", s, "deco", << >>))
                 ELSE flushed.children
    /\ fpc' = "spans"
    /\ UNCHANGED <<text, group>>

\* End of the span loop: the group that is returned.
FinishFlatten ==
    /\ fpc = "spans"
    /\ group' = new_children
    /\ fpc' = "done"
    /\ UNCHANGED <<text, new_children, span_builder>>

InitFlatten ==
    /\ text = << >>
    /\ new_children = << >>
    /\ span_builder = << >>
    /\ fpc = "spans"
    /\ group = << >>


\* ======================================================================
\*                      GlyphPainter (colr.rs)
\* ======================================================================

\* Number of ColorPainter callbacks of one glyph's paint program.
MaxCmds == 4

\* Number of colour glyphs colr() is called for.
MaxTranslations == 2

VARIABLES
    font,               \* GlyphPainter.font: what the font's CPAL table holds
    svg,                \* GlyphPainter.svg: the XmlWriter
    path_buf,           \* GlyphPainter.path_buf
    gradient_index,     \* GlyphPainter.gradient_index
    clip_path_index,    \* GlyphPainter.clip_path_index
    transform,          \* GlyphPainter.transform
    outline_transform,  \* GlyphPainter.outline_transform
    transforms_stack,   \* GlyphPainter.transforms_stack
    ppc,                \* colr(): "painting" | "panicked" | "done"
    scopes,             \* the paint traversal: indexes in log of the open pushes
    log,                \* the callbacks made so far, with the state before each
    trees               \* the callbacks and documents of the glyphs colr() translated before

painterVars == <<font, svg, path_buf, gradient_index, clip_path_index, transform,
                 outline_transform, transforms_stack, ppc, scopes, log, trees>>

vars == <<text, new_children, span_builder, fpc, group,
          font, svg, path_buf, gradient_index, clip_path_index, transform,
          outline_transform, transforms_stack, ppc, scopes, log, trees>>

\* ------------------------------------------------------------ transforms
Transform(xx, yx, xy, yy, dx, dy) ==
    [xx |-> xx, yx |-> yx, xy |-> xy, yy |-> yy, dx |-> dx, dy |-> dy]

\* Transform::default()
Identity == Transform(1, 0, 0, 1, 0, 0)

\* The transforms a paint program pushes: a quarter turn, a translation and
\* a singular matrix.  The first two do not commute; every product of them
\* has determinant 1, so inverses stay integral.
Rotate90  == Transform(0, 1, -1, 0, 0, 0)
Translate == Transform(1, 0, 0, 1, 1, 0)
Singular  == Transform(0, 0, 0, 0, 0, 0)
Transforms == {Rotate90, Translate, Singular}

\* `a * b` of skrifa::color::Transform: the matrix product, b applied first.
Mul(a, b) ==
    Transform(a.xx * b.xx + a.xy * b.yx,
              a.yx * b.xx + a.yy * b.yx,
              a.xx * b.xy + a.xy * b.yy,
              a.yx * b.xy + a.yy * b.yy,
              a.xx * b.dx + a.xy * b.dy + a.dx,
              a.yx * b.dx + a.yy * b.dy + a.dy)

\* skrifa_to_tsp_transform: Transform::from_row(xx, yx, xy, yy, dx, dy).
skrifa_to_tsp_transform(t) ==
    [sx |-> t.xx, ky |-> t.yx, kx |-> t.xy, sy |-> t.yy, tx |-> t.dx, ty |-> t.dy]

\* tsp_to_skrifa_transform
tsp_to_skrifa_transform(t) ==
    Transform(t.sx, t.ky, t.kx, t.sy, t.tx, t.ty)

TspIdentity == skrifa_to_tsp_transform(Identity)

\* tiny_skia_path::Transform::invert: None for a singular matrix.
TspInvert(t) ==
    LET det == t.sx * t.sy - t.kx * t.ky
    IN  IF det = 0
        THEN [some |-> FALSE, value |-> TspIdentity]
        ELSE [some |-> TRUE,
              value |-> [sx |-> t.sy \div det,
                         ky |-> (0 - t.ky) \div det,
                         kx |-> (0 - t.kx) \div det,
                         sy |-> t.sx \div det,
                         tx |-> (t.kx * t.ty - t.sy * t.tx) \div det,
                         ty |-> (t.ky * t.tx - t.sx * t.ty) \div det]]

\* tiny_skia_path::Transform::pre_concat: self * other.
TspPreConcat(a, b) ==
    [sx |-> a.sx * b.sx + a.kx * b.ky,
     ky |-> a.ky * b.sx + a.sy * b.ky,
     kx |-> a.sx * b.kx + a.kx * b.sy,
     sy |-> a.ky * b.kx + a.sy * b.sy,
     tx |-> a.sx * b.tx + a.kx * b.ty + a.tx,
     ty |-> a.ky * b.tx + a.sy * b.ty + a.ty]

\* paint_transform: invert(outline).unwrap_or_default().pre_concat(transform)
paint_transform(outline_ts, ts) ==
    LET o   == skrifa_to_tsp_transform(outline_ts)
        g   == skrifa_to_tsp_transform(ts)
        inv == TspInvert(o)
        d   == IF inv.some THEN inv.value ELSE TspIdentity
    IN  tsp_to_skrifa_transform(TspPreConcat(d, g))

\* ------------------------------------------------------------ the font
\* u16::MAX, the palette index that stands for the foreground colour.
ForegroundIndex == 65535

Color(r, g, b, a) == [red |-> r, green |-> g, blue |-> b, alpha |-> a]

\* foreground_color: Color::new_rgba(0, 0, 0, 255)
foreground_color == Color(0, 0, 0, 255)

\* The colour records of a font that has a CPAL table.
ColorRecords == << Color(10, 20, 30, 255), Color(200, 100, 50, 129) >>

\* A font as palette_index_to_color sees it: whether cpal() is Ok and has a
\* colour record array, and that array.
Font(cpal, records) == [cpal |-> cpal, records |-> records]

\* A font with the records above and a font without CPAL table.
CpalFont == Font(TRUE, ColorRecords)
Fonts == {CpalFont, Font(FALSE, << >>)}

\* Alpha factors are f32 values AlphaNum / AlphaDen: an f32 has a
\* significand of 24 bits.
AlphaDen == 16777216

\* Products are kept in two limbs, (hi * Limb + lo) / AlphaDen, so that no
\* intermediate value leaves 32 bits.
Limb == 4096

RECURSIVE BitLen(_)
BitLen(x) == IF x = 0 THEN 0 ELSE 1 + BitLen(x \div 2)

RECURSIVE Pow2(_)
Pow2(k) == IF k = 0 THEN 1 ELSE 2 * Pow2(k - 1)

\* The real product of `color.alpha as f32` and alpha.
ExactMul(a, num) ==
    LET m == IF num < 0 THEN 0 - num ELSE num
        al == a * (m % Limb)
    IN  [neg |-> num < 0, hi |-> a * (m \div Limb) + al \div Limb, lo |-> al % Limb]

\* Rounding to f32: a product below 1 has at most 24 bits and is exact; one
\* with b integer bits loses its lowest b bits, to nearest, ties to even.
RoundF32(x) ==
    LET b == BitLen(x.hi \div Limb)
        ulp == Pow2(b)
        q == x.lo \div ulp
        r == x.lo % ulp
        up == 2 * r > ulp \/ (2 * r = ulp /\ q % 2 = 1)
        lo == (IF up THEN q + 1 ELSE q) * ulp
    IN  IF b = 0 THEN x
        ELSE [x EXCEPT !.hi = x.hi + lo \div Limb, !.lo = lo % Limb]

\* `(color.alpha as f32) * alpha`
F32Mul(a, num) == RoundF32(ExactMul(a, num))

\* `x as u8` rounding to the nearest integer instead of truncating.
AsU8Nearest(x) ==
    LET i == x.hi \div Limb + (IF 2 * (x.hi % Limb) >= Limb THEN 1 ELSE 0)
    IN  IF x.neg THEN 0 ELSE IF i > 255 THEN 255 ELSE i

\* `x as u8` for a float x: truncation, saturating at 0 and 255.
AsU8(x) ==
    IF x.neg THEN 0
    ELSE IF x.hi \div Limb > 255 THEN 255
    ELSE x.hi \div Limb

\* The glyphs push_clip_glyph is called with: "missing" has no entry in
\* outline_glyphs(), "blank" has an outline without contours.
ClipGlyphs == {"missing", "blank", "tri"}

\* The pen calls draw() makes for a glyph.
PenCalls(glyph_id) ==
    IF glyph_id = "tri" THEN <<"M 0 0", "L 4 0", "L 0 4", "Z">> ELSE << >>

HasOutline(glyph_id) == glyph_id # "missing"

\* Builder's OutlinePen methods: each writes its command and a space.
RECURSIVE BuilderDraw(_, _)
BuilderDraw(buf, calls) ==
    IF calls = << >> THEN buf
    ELSE BuilderDraw(buf \o <<Head(calls), " ">>, Tail(calls))

\* Builder::finish: remove the trailing space.
BuilderFinish(buf) ==
    IF buf # << >> THEN SubSeq(buf, 1, Len(buf) - 1) ELSE buf

\* ------------------------------------------------------------ XmlWriter
Attrs == [id |-> << >>, fill |-> << >>, opacity |-> 0, transform |-> Identity,
          d |-> << >>, clip_path |-> << >>, style |-> "", stops |-> << >>]

\* start_element: the element is written and stays open.  An element of the
\* document records its tag, its attributes and the number of elements open
\* around it.
StartElement(w, tag, attrs) ==
    [ depth_stack |-> Append(w.depth_stack, tag),
      doc |-> Append(w.doc, [tag |-> tag, attrs |-> attrs,
                             depth |-> Len(w.depth_stack)]) ]

\* end_element: closes the innermost open element, if there is one.
EndElement(w) ==
    IF w.depth_stack = << >> THEN w
    ELSE [w EXCEPT !.depth_stack = SubSeq(@, 1, Len(@) - 1)]

\* end_document: closes every open element.
EndDocument(w) == [w EXCEPT !.depth_stack = << >>]

\* ------------------------------------------------------------ GlyphPainter
\* The painter as a record of its fields; panicked: an unwrap() or an index
\* out of range unwound from the callback.
Painter ==
    [ svg |-> svg, path_buf |-> path_buf, gradient_index |-> gradient_index,
      clip_path_index |-> clip_path_index, transform |-> transform,
      outline_transform |-> outline_transform,
      transforms_stack |-> transforms_stack, panicked |-> FALSE ]

\* palette_index_to_color multiplying by 1 - alpha instead of alpha.
palette_index_to_color_inverted(f, palette_index, alpha) ==
    IF palette_index = ForegroundIndex
    THEN [result |-> "some",
          color |-> [foreground_color EXCEPT
                        !.alpha = AsU8(F32Mul(foreground_color.alpha,
                                              AlphaDen - alpha))]]
    ELSE IF ~f.cpal
    THEN [result |-> "none", color |-> foreground_color]
    ELSE IF palette_index >= Len(f.records)
    THEN [result |-> "panic", color |-> foreground_color]
    ELSE LET c == f.records[palette_index + 1]
         IN  [result |-> "some",
              color |-> Color(c.red, c.green, c.blue,
                              AsU8(F32Mul(c.alpha, AlphaDen - alpha)))]

\* palette_index_to_color reading the CPAL table before it looks at the
\* index.
palette_index_to_color_cpal_first(f, palette_index, alpha) ==
    IF ~f.cpal
    THEN [result |-> "none", color |-> foreground_color]
    ELSE IF palette_index = ForegroundIndex
    THEN [result |-> "some",
          color |-> [foreground_color EXCEPT
                        !.alpha = AsU8(F32Mul(foreground_color.alpha, alpha))]]
    ELSE IF palette_index >= Len(f.records)
    THEN [result |-> "panic", color |-> foreground_color]
    ELSE LET c == f.records[palette_index + 1]
         IN  [result |-> "some",
              color |-> Color(c.red, c.green, c.blue,
                              AsU8(F32Mul(c.alpha, alpha)))]

\* palette_index_to_color.  result: "some" | "none" (a `?` returned None) |
\* "panic" (the slice index is out of range).
palette_index_to_color(f, palette_index, alpha) ==
    IF palette_index = ForegroundIndex
    THEN [result |-> "some",
          color |-> [foreground_color EXCEPT
                        !.alpha = AsU8(F32Mul(foreground_color.alpha, alpha))]]
    ELSE IF ~f.cpal
    THEN [result |-> "none", color |-> foreground_color]
    ELSE IF palette_index >= Len(f.records)
    THEN [result |-> "panic", color |-> foreground_color]
    ELSE LET c == f.records[palette_index + 1]
         IN  [result |-> "some",
              color |-> Color(c.red, c.green, c.blue,
                              AsU8(F32Mul(c.alpha, alpha)))]

\* write_gradient_stops: one <stop> per colour stop; unwrap() panics on the
\* first stop whose colour does not resolve.
RECURSIVE write_gradient_stops(_, _, _)
write_gradient_stops(p, f, stops) ==
    IF stops = << >> THEN p
    ELSE LET c == palette_index_to_color(f, Head(stops).palette_index,
                                         Head(stops).alpha)
         IN  IF c.result # "some"
             THEN [p EXCEPT !.panicked = TRUE]
             ELSE write_gradient_stops(
                    [p EXCEPT !.svg = EndElement(StartElement(@, "stop",
                        [Attrs EXCEPT !.fill = c.color,
                                      !.opacity = c.color.alpha])) ],
                    f, Tail(stops))

\* paint_solid writing the active transform instead of outline_transform.
paint_solid_active(p, color) ==
    [p EXCEPT !.svg = EndElement(StartElement(@, "path",
        [Attrs EXCEPT !.fill = color, !.opacity = color.alpha,
                      !.transform = p.transform, !.d = p.path_buf]))]

\* paint_solid taking the path out of path_buf (as mem::take would).
paint_solid_consuming(p, color) ==
    [p EXCEPT !.svg = EndElement(StartElement(@, "path",
                  [Attrs EXCEPT !.fill = color, !.opacity = color.alpha,
                                !.transform = p.outline_transform,
                                !.d = p.path_buf])),
              !.path_buf = << >>]

\* paint_solid
paint_solid(p, color) ==
    [p EXCEPT !.svg = EndElement(StartElement(@, "path",
        [Attrs EXCEPT !.fill = color, !.opacity = color.alpha,
                      !.transform = p.outline_transform, !.d = p.path_buf]))]

\* paint_linear_gradient / paint_radial_gradient advancing gradient_index by
\* two.
paint_gradient_skipping(p, f, tag, prefix, stops) ==
    LET gradient_id == <<prefix, p.gradient_index>>
        p1 == [p EXCEPT !.gradient_index = @ + 2]
        p2 == [p1 EXCEPT !.svg = StartElement(@, tag,
                 [Attrs EXCEPT !.id = gradient_id,
                               !.transform = paint_transform(p.outline_transform,
                                                             p.transform)])]
        p3 == write_gradient_stops(p2, f, stops)
    IN  IF p3.panicked THEN p3
        ELSE [p3 EXCEPT !.svg = EndElement(StartElement(EndElement(@), "path",
                 [Attrs EXCEPT !.fill = gradient_id,
                               !.transform = p.outline_transform,
                               !.d = p.path_buf]))]

\* paint_linear_gradient / paint_radial_gradient: the gradient element with
\* its stops, then the path that refers to it.
paint_gradient(p, f, tag, prefix, stops) ==
    LET gradient_id == <<prefix, p.gradient_index>>
        p1 == [p EXCEPT !.gradient_index = @ + 1]
        p2 == [p1 EXCEPT !.svg = StartElement(@, tag,
                 [Attrs EXCEPT !.id = gradient_id,
                               !.transform = paint_transform(p.outline_transform,
                                                             p.transform)])]
        p3 == write_gradient_stops(p2, f, stops)
    IN  IF p3.panicked THEN p3
        ELSE [p3 EXCEPT !.svg = EndElement(StartElement(EndElement(@), "path",
                 [Attrs EXCEPT !.fill = gradient_id,
                               !.transform = p.outline_transform,
                               !.d = p.path_buf]))]

\* paint_radial_gradient taking its id without advancing gradient_index.
paint_radial_gradient_same_index(p, f, stops) ==
    [paint_gradient(p, f, "radialGradient", "rg", stops)
        EXCEPT !.gradient_index = p.gradient_index]

paint_linear_gradient(p, f, stops) ==
    paint_gradient(p, f, "linearGradient", "lg", stops)

paint_radial_gradient(p, f, stops) ==
    paint_gradient(p, f, "radialGradient", "rg", stops)

\* paint_sweep_gradient drawing the outline in the foreground colour.
paint_sweep_gradient_drawing(p) == paint_solid(p, foreground_color)

\* paint_sweep_gradient: a warning is printed.
paint_sweep_gradient(p) == p

\* clip_with_path
clip_with_path(p, path) ==
    LET clip_id == <<"cp", p.clip_path_index>>
        w1 == StartElement(p.svg, "clipPath", [Attrs EXCEPT !.id = clip_id])
        w2 == StartElement(w1, "path",
                 [Attrs EXCEPT !.transform = p.outline_transform, !.d = path])
        w3 == EndElement(EndElement(w2))
        w4 == StartElement(w3, "g", [Attrs EXCEPT !.clip_path = clip_id])
    IN  [p EXCEPT !.clip_path_index = @ + 1, !.svg = w4]

\* push_transform pushing the new transform instead of the old one.
push_transform_new(p, t) ==
    [p EXCEPT !.transforms_stack = Append(@, Mul(t, p.transform)),
              !.transform = Mul(t, p.transform)]

\* ColorPainter::push_transform
push_transform(p, t) ==
    [p EXCEPT !.transforms_stack = Append(@, p.transform),
              !.transform = Mul(t, p.transform)]

\* pop_transform unwrapping the popped value.
pop_transform_unwrap(p) ==
    IF p.transforms_stack # << >>
    THEN [p EXCEPT !.transform = p.transforms_stack[Len(p.transforms_stack)],
                   !.transforms_stack = SubSeq(@, 1, Len(@) - 1)]
    ELSE [p EXCEPT !.panicked = TRUE]

\* ColorPainter::pop_transform
pop_transform(p) ==
    IF p.transforms_stack # << >>
    THEN [p EXCEPT !.transform = p.transforms_stack[Len(p.transforms_stack)],
                   !.transforms_stack = SubSeq(@, 1, Len(@) - 1)]
    ELSE p

\* ColorPainter::push_clip_glyph
push_clip_glyph(p, glyph_id) ==
    IF ~HasOutline(glyph_id)
    THEN [p EXCEPT !.path_buf = << >>]
    ELSE [p EXCEPT !.path_buf = BuilderFinish(BuilderDraw(<< >>, PenCalls(glyph_id))),
                   !.outline_transform = p.transform]

\* The path push_clip_box formats for its box.
ClipBoxPath == <<"M 0 0", " ", "L 8 0", " ", "L 8 8", " ", "L 0 8", " ", "Z">>

\* ColorPainter::push_clip_box
push_clip_box(p) == clip_with_path(p, ClipBoxPath)

\* ColorPainter::pop_clip
pop_clip(p) == [p EXCEPT !.svg = EndElement(@)]

\* The brushes fill is called with.  stops: the colour stops of a gradient.
Brush(kind, palette_index, alpha, stops) ==
    [kind |-> kind, palette_index |-> palette_index, alpha |-> alpha,
     stops |-> stops]

Stop(palette_index, alpha) == [palette_index |-> palette_index, alpha |-> alpha]

Brushes ==
    { Brush("solid", ForegroundIndex, AlphaDen, << >>),
      Brush("solid", 1, AlphaDen \div 2, << >>),
      Brush("solid", 2, AlphaDen, << >>),
      Brush("linear", 0, 0,
            <<Stop(ForegroundIndex, AlphaDen), Stop(0, AlphaDen \div 2)>>),
      Brush("radial", 0, 0,
            <<Stop(ForegroundIndex, AlphaDen), Stop(ForegroundIndex, 0)>>),
      Brush("sweep", 0, 0, <<Stop(ForegroundIndex, AlphaDen)>>) }

\* ColorPainter::fill
fill(p, f, brush) ==
    CASE brush.kind = "solid" ->
            LET c == palette_index_to_color(f, brush.palette_index, brush.alpha)
            IN  IF c.result # "some"
                THEN [p EXCEPT !.panicked = TRUE]
                ELSE paint_solid(p, c.color)
      [] brush.kind = "linear" -> paint_linear_gradient(p, f, brush.stops)
      [] brush.kind = "radial" -> paint_radial_gradient(p, f, brush.stops)
      [] OTHER -> paint_sweep_gradient(p)

\* The composite modes push_layer is called with.
CompositeModes == {"SrcOver", "Multiply", "Unknown"}

\* The composite modes push_layer names; every other variant of
\* CompositeMode is represented by "Unknown".
NamedModes ==
    { "SrcOver", "Screen", "Overlay", "Darken", "Lighten", "ColorDodge",
      "ColorBurn", "HardLight", "SoftLight", "Difference", "Exclusion",
      "Multiply", "HslHue", "HslSaturation", "HslColor", "HslLuminosity" }

AllCompositeModes == NamedModes \cup {"Unknown"}

\* push_layer's match with the HslColor arm writing "hue".
BlendKeywordHslColorAsHue(composite_mode) ==
    CASE composite_mode = "SrcOver"       -> "normal"
      [] composite_mode = "Screen"        -> "screen"
      [] composite_mode = "Overlay"       -> "overlay"
      [] composite_mode = "Darken"        -> "darken"
      [] composite_mode = "Lighten"       -> "lighten"
      [] composite_mode = "ColorDodge"    -> "color-dodge"
      [] composite_mode = "ColorBurn"     -> "color-burn"
      [] composite_mode = "HardLight"     -> "hard-light"
      [] composite_mode = "SoftLight"     -> "soft-light"
      [] composite_mode = "Difference"    -> "difference"
      [] composite_mode = "Exclusion"     -> "exclusion"
      [] composite_mode = "Multiply"      -> "multiply"
      [] composite_mode = "HslHue"        -> "hue"
      [] composite_mode = "HslSaturation" -> "saturation"
      [] composite_mode = "HslColor"      -> "hue"
      [] composite_mode = "HslLuminosity" -> "luminosity"
      [] OTHER -> "normal"

\* push_layer's match on composite_mode.
BlendKeyword(composite_mode) ==
    CASE composite_mode = "SrcOver"       -> "normal"
      [] composite_mode = "Screen"        -> "screen"
      [] composite_mode = "Overlay"       -> "overlay"
      [] composite_mode = "Darken"        -> "darken"
      [] composite_mode = "Lighten"       -> "lighten"
      [] composite_mode = "ColorDodge"    -> "color-dodge"
      [] composite_mode = "ColorBurn"     -> "color-burn"
      [] composite_mode = "HardLight"     -> "hard-light"
      [] composite_mode = "SoftLight"     -> "soft-light"
      [] composite_mode = "Difference"    -> "difference"
      [] composite_mode = "Exclusion"     -> "exclusion"
      [] composite_mode = "Multiply"      -> "multiply"
      [] composite_mode = "HslHue"        -> "hue"
      [] composite_mode = "HslSaturation" -> "saturation"
      [] composite_mode = "HslColor"      -> "color"
      [] composite_mode = "HslLuminosity" -> "luminosity"
      [] OTHER -> "normal"

\* ColorPainter::push_layer
push_layer(p, composite_mode) ==
    [p EXCEPT !.svg = StartElement(@, "g",
        [Attrs EXCEPT !.style = BlendKeyword(composite_mode)])]

\* ColorPainter::pop_layer: GlyphPainter does not override it.
pop_layer(p) == p


\* ------------------------------------------------------------ the traversal
\* colr(): the writer after <svg> and the wrapper <g> are opened, and the
\* fields GlyphPainter is built with.
InitPainter(fonts) ==
    /\ font \in fonts
    /\ svg = StartElement(StartElement([depth_stack |-> << >>, doc |-> << >>],
                                       "svg", Attrs), "g", Attrs)
    /\ path_buf = << >>
    /\ gradient_index = 1
    /\ clip_path_index = 1
    /\ transform = Identity
    /\ outline_transform = Identity
    /\ transforms_stack = <<Identity>>
    /\ ppc = "painting"
    /\ scopes = << >>
    /\ log = << >>
    /\ trees = << >>

NoArg == [ts |-> Identity, glyph |-> "", brush |-> Brush("", 0, 0, << >>), mode |-> ""]

\* A callback as logged: its name and argument, the painter's fields, the
\* number of open elements and the length of the document when it was made,
\* and for a pop the index in the log of the push it closes (0: none).
LogEntry(op, arg, match) ==
    [op |-> op, arg |-> arg, match |-> match,
     transform |-> transform, transforms_stack |-> transforms_stack,
     depth |-> Len(svg.depth_stack), doc_len |-> Len(svg.doc),
     path_buf |-> path_buf, outline_transform |-> outline_transform,
     gradient_index |-> gradient_index, clip_path_index |-> clip_path_index]

TopScope == IF scopes = << >> THEN 0 ELSE scopes[Len(scopes)]
TopKind == IF scopes = << >> THEN "none" ELSE log[TopScope].op
PopScope == SubSeq(scopes, 1, Len(scopes) - 1)

\* The painter's fields after a callback returned p (or unwound with it).
Apply(p) ==
    /\ svg' = p.svg
    /\ path_buf' = p.path_buf
    /\ gradient_index' = p.gradient_index
    /\ clip_path_index' = p.clip_path_index
    /\ transform' = p.transform
    /\ outline_transform' = p.outline_transform
    /\ transforms_stack' = p.transforms_stack
    /\ ppc' = IF p.panicked THEN "panicked" ELSE "painting"

Callback(op, arg, match, p, newScopes) ==
    /\ ppc = "painting"
    /\ Len(log) < MaxCmds
    /\ log' = Append(log, LogEntry(op, arg, match))
    /\ scopes' = newScopes
    /\ Apply(p)
    /\ UNCHANGED <<font, trees, text, new_children, span_builder, fpc, group>>

Opened == Append(scopes, Len(log) + 1)

DoPushTransform ==
    \E t \in Transforms :
        Callback("push_transform", [NoArg EXCEPT !.ts = t], 0,
                 push_transform(Painter, t), Opened)

\* pop_transform closing the innermost push_transform, or called by a paint
\* program that has no push_transform open (one pop too many).
DoPopTransform ==
    \/ /\ TopKind = "push_transform"
       /\ Callback("pop_transform", NoArg, TopScope, pop_transform(Painter), PopScope)
    \/ /\ \A i \in 1..Len(scopes) : log[scopes[i]].op # "push_transform"
       /\ Callback("pop_transform", NoArg, 0, pop_transform(Painter), scopes)

DoPushClipGlyph ==
    \E g \in ClipGlyphs :
        Callback("push_clip_glyph", [NoArg EXCEPT !.glyph = g], 0,
                 push_clip_glyph(Painter, g), Opened)

DoPushClipBox ==
    Callback("push_clip_box", NoArg, 0, push_clip_box(Painter), Opened)

DoPopClip ==
    /\ TopKind \in {"push_clip_glyph", "push_clip_box"}
    /\ Callback("pop_clip", NoArg, TopScope, pop_clip(Painter), PopScope)

DoFill ==
    \E b \in Brushes :
        Callback("fill", [NoArg EXCEPT !.brush = b], 0, fill(Painter, font, b), scopes)

DoPushLayer ==
    \E m \in CompositeModes :
        Callback("push_layer", [NoArg EXCEPT !.mode = m], 0,
                 push_layer(Painter, m), Opened)

DoPopLayer ==
    /\ TopKind = "push_layer"
    /\ Callback("pop_layer", NoArg, TopScope, pop_layer(Painter), PopScope)

\* colr() after paint() returned: svg.end_element(); svg.end_document().
FinishPaint ==
    /\ ppc = "painting"
    /\ scopes = << >>
    /\ svg' = EndDocument(EndElement(svg))
    /\ ppc' = "done"
    /\ UNCHANGED <<font, path_buf, gradient_index, clip_path_index, transform,
                   outline_transform, transforms_stack, scopes, log, trees,
                   text, new_children, span_builder, fpc, group>>

NextPaint ==
    \/ DoPushTransform
    \/ DoPopTransform
    \/ DoPushClipGlyph
    \/ DoPushClipBox
    \/ DoPopClip
    \/ DoFill
    \/ DoPushLayer
    \/ DoPopLayer
    \/ FinishPaint

InitPaint == InitFlatten /\ InitPainter(Fonts)

SpecPaint == InitPaint /\ [][NextPaint]_vars

\* ------------------------------------------------------------ flatten specs
FlattenStep(A) == A /\ UNCHANGED painterVars

NextFlatten ==
    \/ \E deco \in Decorations : FlattenStep(BeginSpan(deco))
    \/ \E avail \in RepAvail : FlattenStep(Glyph(avail))
    \/ FlattenStep(EndSpan)
    \/ FlattenStep(FinishFlatten)

\* flatten on its own: the painter is idle.
Init == InitFlatten /\ InitPainter({CpalFont})

SpecFlatten == Init /\ [][NextFlatten]_vars

\* One span whose glyphs have every combination of representations.
NextResolve ==
    \/ text = << >> /\ FlattenStep(BeginSpan(NoDecoration))
    \/ \E avail \in SUBSET Representations : FlattenStep(Glyph(avail))
    \/ FlattenStep(EndSpan)
    \/ FlattenStep(FinishFlatten)

SpecResolve == Init /\ [][NextResolve]_vars


\* ------------------------------------------------------------ alpha
\* Fonts whose CPAL table has one record, with every stored alpha.
AlphaFonts == {Font(TRUE, <<Color(10, 20, 30, a)>>) : a \in 0..255}

\* Alpha factors as numerators over AlphaDen: the quarters from -1/4 to 1,
\* the factor 2, the f32 values next to 5/6 and 7/10, and the largest f32
\* below 1.
AlphaNums ==
    { (k * AlphaDen) \div 4 : k \in (0 - 1)..4 }
    \cup {2 * AlphaDen, 13981013, 11744051, AlphaDen - 1}

\* Solid fills with every factor, and gradients whose two stops resolve the
\* same palette entry with two factors.
AlphaBrushes ==
    { Brush("solid", i, n, << >>) : i \in {0, ForegroundIndex}, n \in AlphaNums }
    \cup
    { Brush("linear", 0, 0, <<Stop(i, n1), Stop(i, n2)>>) :
        i \in {0, ForegroundIndex}, n1 \in AlphaNums, n2 \in AlphaNums }

\* A paint program of one fill.
AlphaFill ==
    /\ log = << >>
    /\ \E b \in AlphaBrushes :
          Callback("fill", [NoArg EXCEPT !.brush = b], 0, fill(Painter, font, b), scopes)

InitAlpha == InitFlatten /\ InitPainter(AlphaFonts)

NextAlpha ==
    \/ AlphaFill
    \/ FinishPaint

SpecAlpha == InitAlpha /\ [][NextAlpha]_vars

\* ------------------------------------------------------------ layers
\* Paint programs of push_layer with every composite mode, and pop_layer.
PushAnyLayer ==
    \E m \in AllCompositeModes :
        Callback("push_layer", [NoArg EXCEPT !.mode = m], 0,
                 push_layer(Painter, m), Opened)

NextLayer ==
    \/ PushAnyLayer
    \/ DoPopLayer
    \/ FinishPaint

SpecLayer == Init /\ [][NextLayer]_vars

\* ------------------------------------------------- colr() for several glyphs
\* The callback of a logged paint command.
Run(p, f, e) ==
    CASE e.op = "push_transform"  -> push_transform(p, e.arg.ts)
      [] e.op = "pop_transform"   -> pop_transform(p)
      [] e.op = "push_clip_glyph" -> push_clip_glyph(p, e.arg.glyph)
      [] e.op = "push_clip_box"   -> push_clip_box(p)
      [] e.op = "pop_clip"        -> pop_clip(p)
      [] e.op = "fill"            -> fill(p, f, e.arg.brush)
      [] e.op = "push_layer"      -> push_layer(p, e.arg.mode)
      [] e.op = "pop_layer"       -> pop_layer(p)

\* colr() for the next glyph with gradient_index and clip_path_index kept
\* from the glyph before.
NewTranslationKeepCounters ==
    /\ ppc = "done"
    /\ Len(trees) + 1 < MaxTranslations
    /\ trees' = Append(trees, [log |-> log, svg |-> svg])
    /\ svg' = StartElement(StartElement([depth_stack |-> << >>, doc |-> << >>],
                                        "svg", Attrs), "g", Attrs)
    /\ path_buf' = << >>
    /\ transform' = Identity
    /\ outline_transform' = Identity
    /\ transforms_stack' = <<Identity>>
    /\ ppc' = "painting"
    /\ scopes' = << >>
    /\ log' = << >>
    /\ UNCHANGED <<gradient_index, clip_path_index,
                   font, text, new_children, span_builder, fpc, group>>

\* colr() called for the next colour glyph, after the one before returned
\* its tree: a new writer, a new path buffer and a new GlyphPainter.
NewTranslation ==
    /\ ppc = "done"
    /\ Len(trees) + 1 < MaxTranslations
    /\ trees' = Append(trees, [log |-> log, svg |-> svg])
    /\ svg' = StartElement(StartElement([depth_stack |-> << >>, doc |-> << >>],
                                        "svg", Attrs), "g", Attrs)
    /\ path_buf' = << >>
    /\ gradient_index' = 1
    /\ clip_path_index' = 1
    /\ transform' = Identity
    /\ outline_transform' = Identity
    /\ transforms_stack' = <<Identity>>
    /\ ppc' = "painting"
    /\ scopes' = << >>
    /\ log' = << >>
    /\ UNCHANGED <<font, text, new_children, span_builder, fpc, group>>

\* The paint program of the glyph translated before.
Program == trees[Len(trees)].log

\* The next callback of a glyph that has the paint program of the glyph
\* before.
SameProgramStep ==
    /\ trees # << >>
    /\ Len(log) < Len(Program)
    /\ LET e == Program[Len(log) + 1]
       IN  Callback(e.op, e.arg, e.match, Run(Painter, font, e),
                    IF e.op \in {"push_transform", "push_clip_glyph",
                                 "push_clip_box", "push_layer"}
                    THEN Opened
                    ELSE IF e.match # 0 THEN PopScope ELSE scopes)

\* paint() returned for a glyph that has the paint program of the glyph
\* before.
SameProgramFinish ==
    /\ trees # << >>
    /\ Len(log) = Len(Program)
    /\ FinishPaint

\* The first glyph has any paint program, the following ones the same.
NextTwice ==
    \/ trees = << >> /\ NextPaint
    \/ NewTranslation
    \/ SameProgramStep
    \/ SameProgramFinish

SpecTwice == Init /\ [][NextTwice]_vars

\* ======================================================================
\*                          properties: flatten
\* ======================================================================

\* The order in which a glyph's representations are to be tried.
PriorityOrder == <<"colr", "svg", "raster", "outline">>

FirstAvailable(avail) ==
    IF \E i \in 1..Len(PriorityOrder) : PriorityOrder[i] \in avail
    THEN PriorityOrder[CHOOSE i \in 1..Len(PriorityOrder) :
                          /\ PriorityOrder[i] \in avail
                          /\ \A j \in 1..(i - 1) : PriorityOrder[j] \notin avail]
    ELSE "none"

Range(seq) == {seq[i] : i \in 1..Len(seq)}

\* Spans whose glyph loop and final flush are over.
FinishedSpans == {s \in 1..Len(text) : s < Len(text) \/ fpc # "glyphs"}

\* Glyph path nodes of span s, as indexes of new_children.
PathNodes(s) ==
    {i \in 1..Len(new_children) :
        new_children[i].kind = "path" /\ new_children[i].span = s}

\* Number of maximal runs of consecutive outline glyphs of span s.
OutlineRuns(s) ==
    LET gs == text[s].glyphs
    IN  Cardinality({g \in 1..Len(gs) :
            /\ FirstAvailable(gs[g]) = "outline"
            /\ (g = 1 \/ FirstAvailable(gs[g - 1]) # "outline")})

\* C1: a finished span whose glyphs all have a representation contributes as
\* many glyph path nodes as it has maximal runs of consecutive outline glyphs
\* (exactly one when all of its K >= 1 glyphs are outlines).
C1_PathNodesEqualOutlineRuns ==
    \A s \in FinishedSpans :
        (\A g \in 1..Len(text[s].glyphs) : text[s].glyphs[g] # {})
            => Cardinality(PathNodes(s)) = OutlineRuns(s)

\* C2: whenever the group of a colr, svg or raster glyph is among the
\* children, every outline glyph that precedes that glyph in its span is in a
\* path node placed before the group.
C2_OutlinesFlushedBeforeGroup ==
    \A i \in 1..Len(new_children) :
        new_children[i].kind = "group" =>
            LET s == new_children[i].span
                g == new_children[i].glyphs[1]
            IN  \A h \in 1..(g - 1) :
                    FirstAvailable(text[s].glyphs[h]) = "outline" =>
                        \E j \in 1..(i - 1) :
                            /\ new_children[j].kind = "path"
                            /\ new_children[j].span = s
                            /\ h \in Range(new_children[j].glyphs)

\* Where glyph g of span s was put: indexes of new_children, 0 for the open
\* outline batch.
UsesOf(s, g) ==
    {i \in 1..Len(new_children) :
        new_children[i].span = s /\ g \in Range(new_children[i].glyphs)}
    \cup (IF s = Len(text) /\ fpc = "glyphs" /\ g \in Range(span_builder)
          THEN {0} ELSE {})

UseRep(i) == IF i = 0 THEN "outline" ELSE new_children[i].rep
UseKind(i) == IF i = 0 THEN "path" ELSE new_children[i].kind

\* C3: every glyph is used exactly once, through the first of colr, svg,
\* raster, outline that is available (a group for the first three, the
\* outline batch or its path node for the last); a glyph with no
\* representation is used nowhere.
C3_FirstAvailableOnly ==
    \A s \in 1..Len(text) : \A g \in 1..Len(text[s].glyphs) :
        LET k == FirstAvailable(text[s].glyphs[g])
            u == UsesOf(s, g)
        IN  IF k = "none" THEN u = {}
            ELSE /\ Cardinality(u) = 1
                 /\ \A i \in u :
                       /\ UseRep(i) = k
                       /\ UseKind(i) = IF k = "outline" THEN "path" ELSE "group"

\* A glyph available as colr and as outline was emitted as a colr group, and
\* a glyph processed after a glyph without representation got its node.
C3_Witness ==
    /\ Len(text) = 1
    /\ Len(text[1].glyphs) = 3
    /\ text[1].glyphs[1] = {"colr", "outline"}
    /\ text[1].glyphs[2] = {}
    /\ text[1].glyphs[3] = {"svg", "raster"}
    /\ Len(new_children) = 2
    /\ new_children[1].rep = "colr"
    /\ new_children[2].rep = "svg"
    /\ span_builder = << >>

\* ======================================================================
\*                       properties: GlyphPainter
\* ======================================================================

Last == log[Len(log)]
Depth == Len(svg.depth_stack)
ClipOps == {"push_clip_glyph", "push_clip_box", "pop_clip"}

\* C4: when a pop_clip closes a sequence of paired clip operations, the
\* number of open elements is what it was before the sequence's first push.
C4_ClipDepthRestored ==
    (/\ Len(log) > 0
     /\ Last.op = "pop_clip"
     /\ \A i \in Last.match..Len(log) : log[i].op \in ClipOps)
        => Depth = log[Last.match].depth

\* C5: when a pop_layer closes its push_layer, the number of open elements
\* is what it was before the push_layer.
C5_LayerDepthRestored ==
    (Len(log) > 0 /\ Last.op = "pop_layer")
        => Depth = log[Last.match].depth

\* C6: no paint step aborts the glyph translation.
C6_NeverAborts == ppc # "panicked"

\* C7: when a pop_transform closes its push_transform (directly after it or
\* after a balanced sequence), the active transform and the transform stack
\* are what they were before the push.
C7_TransformRoundTrip ==
    (Len(log) > 0 /\ Last.op = "pop_transform" /\ Last.match > 0)
        => /\ transform = log[Last.match].transform
           /\ transforms_stack = log[Last.match].transforms_stack

\* push A, push B, pop, pop with A the translation and B the quarter turn.
C7_Witness ==
    /\ Len(log) = 4
    /\ log[1].op = "push_transform" /\ log[1].arg.ts = Translate
    /\ log[2].op = "push_transform" /\ log[2].arg.ts = Rotate90
    /\ log[2].transform # Identity
    /\ log[3].op = "pop_transform" /\ log[3].match = 2
    /\ log[4].op = "pop_transform" /\ log[4].match = 1
    /\ transform = Identity
    /\ transforms_stack = <<Identity>>

\* The last callback was a solid fill that emitted its path.
SolidFilled ==
    /\ Len(log) > 0
    /\ Last.op = "fill"
    /\ Last.arg.brush.kind = "solid"
    /\ ppc = "painting"

LastElement == svg.doc[Len(svg.doc)]

\* C8 as claimed: after push_transform(A), push_transform(B), fill(Solid),
\* the emitted path carries B * A * ambient.
C8_FillCarriesActiveTransform ==
    (/\ SolidFilled
     /\ Len(log) >= 3
     /\ log[Len(log) - 1].op = "push_transform"
     /\ log[Len(log) - 2].op = "push_transform")
        => LastElement.attrs.transform =
              Mul(log[Len(log) - 1].arg.ts,
                  Mul(log[Len(log) - 2].arg.ts, log[Len(log) - 2].transform))

\* The last push_clip_glyph in the log whose glyph has an outline (0: none).
LastOutlined ==
    LET S == {i \in 1..Len(log) :
                log[i].op = "push_clip_glyph" /\ HasOutline(log[i].arg.glyph)}
    IN  IF S = {} THEN 0 ELSE CHOOSE i \in S : \A j \in S : j <= i

\* C8 amended: the path of a solid fill carries the transform that was active
\* at the last push_clip_glyph whose glyph has an outline (the identity when
\* there was none); after push_transform(A), push_transform(B),
\* push_clip_glyph(g) for such a glyph and fill(Solid) that is
\* B * A * ambient.
C8_FillCarriesClipTransform ==
    SolidFilled =>
        /\ LastElement.tag = "path"
        /\ LastElement.attrs.transform =
              IF LastOutlined = 0 THEN Identity ELSE log[LastOutlined].transform
        /\ (/\ Len(log) >= 4
            /\ LastOutlined = Len(log) - 1
            /\ log[Len(log) - 2].op = "push_transform"
            /\ log[Len(log) - 3].op = "push_transform")
              => LastElement.attrs.transform =
                    Mul(log[Len(log) - 2].arg.ts,
                        Mul(log[Len(log) - 3].arg.ts, log[Len(log) - 3].transform))

\* push Rotate90, push Translate, push_clip_glyph(tri), fill(Solid): the path
\* carries Translate * Rotate90, which is not Rotate90 * Translate.
C8_Witness ==
    /\ SolidFilled
    /\ Len(log) = 4
    /\ log[1].op = "push_transform" /\ log[1].arg.ts = Rotate90
    /\ log[2].op = "push_transform" /\ log[2].arg.ts = Translate
    /\ log[3].op = "push_clip_glyph" /\ log[3].arg.glyph = "tri"
    /\ LastElement.attrs.transform = Transform(0, 1, -1, 0, 1, 0)
    /\ LastElement.attrs.transform # Mul(Rotate90, Translate)

GradientTags == {"linearGradient", "radialGradient"}

\* C9: the ids of the gradient elements, and the ids of the clipPath
\* elements, are pairwise distinct and their numbers increase in document
\* order.
C9_IdsDistinctAndIncreasing ==
    \A i, j \in 1..Len(svg.doc) :
        (/\ i < j
         /\ \/ svg.doc[i].tag \in GradientTags /\ svg.doc[j].tag \in GradientTags
            \/ svg.doc[i].tag = "clipPath" /\ svg.doc[j].tag = "clipPath")
            => /\ svg.doc[i].attrs.id # svg.doc[j].attrs.id
               /\ svg.doc[i].attrs.id[2] < svg.doc[j].attrs.id[2]

\* Two gradients (one radial, one linear) and two clip paths were emitted.
C9_Witness ==
    /\ Cardinality({i \in 1..Len(svg.doc) : svg.doc[i].tag = "radialGradient"}) = 1
    /\ Cardinality({i \in 1..Len(svg.doc) : svg.doc[i].tag = "linearGradient"}) = 1
    /\ Cardinality({i \in 1..Len(svg.doc) : svg.doc[i].tag = "clipPath"}) = 2
    /\ ppc = "painting"

\* C10: no path element has empty path data.
C10_NoEmptyPathData ==
    \A i \in 1..Len(svg.doc) :
        svg.doc[i].tag = "path" => svg.doc[i].attrs.d # << >>


\* ======================================================================
\*                    properties: alpha, fills, layers
\* ======================================================================

\* The alpha stored for a palette index: the foreground colour's for the
\* reserved index, the colour record's otherwise.
StoredAlpha(palette_index) ==
    IF palette_index = ForegroundIndex THEN foreground_color.alpha
    ELSE font.records[palette_index + 1].alpha

\* The last callback was a fill with a brush of this kind that returned.
Filled(kind) ==
    /\ Len(log) > 0
    /\ Last.op = "fill"
    /\ Last.arg.brush.kind = kind
    /\ ppc # "panicked"

\* The <stop> written for the k-th stop of the gradient of the last fill.
StopElement(k) == svg.doc[Last.doc_len + 1 + k]

\* C11: for two factors f1 <= f2 in [0, 1] applied to the same stored alpha
\* the combined alphas are ordered the same way, and the combined alpha at
\* factor 1 is the stored alpha.
C11_AlphaMonotone ==
    /\ Filled("linear") =>
          LET s1 == Last.arg.brush.stops[1]
              s2 == Last.arg.brush.stops[2]
          IN  /\ (/\ s1.palette_index = s2.palette_index
                  /\ 0 <= s1.alpha /\ s1.alpha <= s2.alpha /\ s2.alpha <= AlphaDen)
                    => StopElement(1).attrs.opacity <= StopElement(2).attrs.opacity
              /\ s2.alpha = AlphaDen
                    => StopElement(2).attrs.opacity = StoredAlpha(s2.palette_index)
    /\ (Filled("solid") /\ Last.arg.brush.alpha = AlphaDen)
          => LastElement.attrs.opacity = StoredAlpha(Last.arg.brush.palette_index)

\* Stored alpha 129 at factors 1/4 and 1: combined alphas 32 and 129.
C11_Witness ==
    /\ Filled("linear")
    /\ Last.arg.brush.stops = <<Stop(0, AlphaDen \div 4), Stop(0, AlphaDen)>>
    /\ StoredAlpha(0) = 129
    /\ StopElement(1).attrs.opacity = 32
    /\ StopElement(2).attrs.opacity = 129

\* floor(a * num / AlphaDen), for num >= 0.
Floor(a, num) == ExactMul(a, num).hi \div Limb

\* AlphaDen times the distance from a * num / AlphaDen up to the next
\* integer above its floor.
GapToNext(a, num) ==
    LET x == ExactMul(a, num) IN AlphaDen - ((x.hi % Limb) * Limb + x.lo)

\* The alpha factors and combined alphas of the last fill: one for a solid
\* brush, one per stop for a gradient.
Combined ==
    IF Filled("solid")
    THEN {[palette_index |-> Last.arg.brush.palette_index,
           alpha |-> Last.arg.brush.alpha, combined |-> LastElement.attrs.opacity]}
    ELSE IF Filled("linear")
    THEN {[palette_index |-> Last.arg.brush.stops[k].palette_index,
           alpha |-> Last.arg.brush.stops[k].alpha,
           combined |-> StopElement(k).attrs.opacity] :
             k \in 1..Len(Last.arg.brush.stops)}
    ELSE {}

\* C20, as stated: with a factor in [0, 1] the combined alpha is
\* floor(a * f); with any factor it lies in 0..255.
C20_AlphaIsFloor ==
    \A c \in Combined :
        /\ c.combined \in 0..255
        /\ (0 <= c.alpha /\ c.alpha <= AlphaDen)
              => c.combined = Floor(StoredAlpha(c.palette_index), c.alpha)

\* C20, amended: the combined alpha is the f32 product a * f truncated.  It is
\* floor(a * f) when a * f has no more than 15 fractional bits (never the
\* nearest integer), otherwise floor(a * f) or, only when a * f is within
\* 2^-17 of the next integer, that integer; it is 0 for a negative factor,
\* and 255 from a * f = 255 on.
C20_AlphaTruncatedAndClamped ==
    \A c \in Combined :
        LET a == StoredAlpha(c.palette_index)
            o == c.combined
        IN  /\ o \in 0..255
            /\ c.alpha < 0 => o = 0
            /\ (c.alpha >= 0 /\ Floor(a, c.alpha) >= 255) => o = 255
            /\ (c.alpha >= 0 /\ Floor(a, c.alpha) < 255) =>
                  /\ o \in {Floor(a, c.alpha), Floor(a, c.alpha) + 1}
                  /\ o = Floor(a, c.alpha) + 1 => GapToNext(a, c.alpha) <= 128
                  /\ GapToNext(a, c.alpha) % 512 = 0 => o = Floor(a, c.alpha)

\* Stored alpha 6: the factor 1/4 gives 1 (1.5 truncated), and the f32 next
\* below 5/6 gives 5, its product 4.99999988 being 5.0 in f32.
C20_Witness ==
    /\ Filled("linear")
    /\ Last.arg.brush.stops = <<Stop(0, AlphaDen \div 4), Stop(0, 13981013)>>
    /\ StoredAlpha(0) = 6
    /\ StopElement(1).attrs.opacity = 1
    /\ StopElement(2).attrs.opacity = 5

\* A fill was made with the solid brush of the reserved palette index.
ForegroundFill ==
    /\ Len(log) > 0
    /\ Last.op = "fill"
    /\ Last.arg.brush.kind = "solid"
    /\ Last.arg.brush.palette_index = ForegroundIndex

\* C12: a solid fill with the reserved palette index succeeds with or without
\* CPAL table and emits exactly one element, a path filled with the
\* foreground colour; with factor 1 its opacity is 255/255.
C12_ForegroundFill ==
    ForegroundFill =>
        /\ ppc # "panicked"
        /\ Len(svg.doc) = Last.doc_len + 1
        /\ LastElement.tag = "path"
        /\ LastElement.attrs.fill.red = foreground_color.red
        /\ LastElement.attrs.fill.green = foreground_color.green
        /\ LastElement.attrs.fill.blue = foreground_color.blue
        /\ Last.arg.brush.alpha = AlphaDen => LastElement.attrs.opacity = 255

\* The fill was made on a font without CPAL table, over a recorded outline.
C12_Witness ==
    /\ ForegroundFill
    /\ ~font.cpal
    /\ Last.arg.brush.alpha = AlphaDen
    /\ LastElement.attrs.d # << >>
    /\ LastElement.attrs.opacity = 255

\* C13: a fill with a sweep brush returns, writes nothing, and leaves the
\* number of open elements, the transforms, the path buffer and the id
\* counters as they were; the callbacks after it are interpreted.
C13_SweepFillSkipped ==
    \A i \in 1..Len(log) :
        (log[i].op = "fill" /\ log[i].arg.brush.kind = "sweep") =>
            /\ i = Len(log) => ppc # "panicked"
            /\ log[i].doc_len = IF i < Len(log) THEN log[i + 1].doc_len
                                ELSE Len(svg.doc)
            /\ (i < Len(log) \/ ppc = "painting") =>
                  log[i].depth = IF i < Len(log) THEN log[i + 1].depth ELSE Depth
            /\ log[i].transform = IF i < Len(log) THEN log[i + 1].transform
                                  ELSE transform
            /\ log[i].transforms_stack =
                  IF i < Len(log) THEN log[i + 1].transforms_stack
                  ELSE transforms_stack
            /\ log[i].outline_transform =
                  IF i < Len(log) THEN log[i + 1].outline_transform
                  ELSE outline_transform
            /\ log[i].path_buf = IF i < Len(log) THEN log[i + 1].path_buf
                                 ELSE path_buf
            /\ log[i].gradient_index =
                  IF i < Len(log) THEN log[i + 1].gradient_index
                  ELSE gradient_index
            /\ log[i].clip_path_index =
                  IF i < Len(log) THEN log[i + 1].clip_path_index
                  ELSE clip_path_index

\* push_transform, push_clip_glyph(tri), a sweep fill, then a solid fill that
\* draws the outline.
C13_Witness ==
    /\ Len(log) = 4
    /\ log[1].op = "push_transform" /\ log[1].arg.ts = Translate
    /\ log[2].op = "push_clip_glyph" /\ log[2].arg.glyph = "tri"
    /\ log[3].op = "fill" /\ log[3].arg.brush.kind = "sweep"
    /\ SolidFilled
    /\ Len(svg.doc) = log[3].doc_len + 1
    /\ LastElement.attrs.d # << >>

\* C14: a pop_transform that closes no push_transform returns and leaves the
\* active transform as it was.
C14_ExcessPopKeepsTransform ==
    \A i \in 1..Len(log) :
        (log[i].op = "pop_transform" /\ log[i].match = 0) =>
            /\ i = Len(log) => ppc # "panicked"
            /\ log[i].transform = IF i < Len(log) THEN log[i + 1].transform
                                  ELSE transform

\* pop_transform as the first callback, then a push/pop pair, then another
\* pop.
C14_Witness ==
    /\ Len(log) = 4
    /\ log[1].op = "pop_transform" /\ log[1].match = 0
    /\ log[2].op = "push_transform" /\ log[2].arg.ts = Rotate90
    /\ log[3].op = "pop_transform" /\ log[3].match = 2
    /\ log[4].op = "pop_transform" /\ log[4].match = 0
    /\ ppc = "painting"
    /\ transform = Identity
    /\ transforms_stack = << >>

Det(t) == t.xx * t.yy - t.xy * t.yx

\* The gradient element written by the last fill.
GradientElement == svg.doc[Last.doc_len + 1]

\* C16: a gradient fill made while outline_transform is singular writes its
\* gradient with the identity as gradient transform, and its path.
C16_SingularGivesIdentityDelta ==
    (/\ Len(log) > 0
     /\ Last.op = "fill"
     /\ Last.arg.brush.kind \in {"linear", "radial"}
     /\ Det(Last.outline_transform) = 0
     /\ ppc # "panicked")
        => /\ GradientElement.tag \in GradientTags
           /\ GradientElement.attrs.transform = Identity
           /\ LastElement.tag = "path"
           /\ LastElement.attrs.fill = GradientElement.attrs.id

\* The group written by the i-th callback, a push_layer.
LayerElement(i) == svg.doc[log[i].doc_len + 1]

\* C17: every push_layer writes exactly one element, a group one level
\* below the elements open before; a mode outside the named ones is tagged
\* "normal", and two different named modes are tagged differently.
C17_LayerGroups ==
    /\ \A i \in 1..Len(log) :
          log[i].op = "push_layer" =>
              /\ (IF i < Len(log) THEN log[i + 1].doc_len ELSE Len(svg.doc))
                    = log[i].doc_len + 1
              /\ (i < Len(log) \/ ppc = "painting") =>
                    (IF i < Len(log) THEN log[i + 1].depth ELSE Depth)
                       = log[i].depth + 1
              /\ LayerElement(i).tag = "g"
              /\ LayerElement(i).depth = log[i].depth
              /\ log[i].arg.mode \notin NamedModes
                    => LayerElement(i).attrs.style = "normal"
    /\ \A i, j \in 1..Len(log) :
          (/\ log[i].op = "push_layer" /\ log[j].op = "push_layer"
           /\ log[i].arg.mode \in NamedModes /\ log[j].arg.mode \in NamedModes
           /\ log[i].arg.mode # log[j].arg.mode)
              => LayerElement(i).attrs.style # LayerElement(j).attrs.style

\* Layers pushed with an unnamed mode, HslHue and HslColor.
C17_Witness ==
    /\ Len(log) = 3
    /\ log[1].op = "push_layer" /\ log[1].arg.mode = "Unknown"
    /\ log[2].op = "push_layer" /\ log[2].arg.mode = "HslHue"
    /\ log[3].op = "push_layer" /\ log[3].arg.mode = "HslColor"
    /\ Depth = log[1].depth + 3
    /\ LayerElement(1).attrs.style = "normal"
    /\ LayerElement(2).attrs.style = "hue"
    /\ LayerElement(3).attrs.style = "color"

\* The text push_clip_glyph is to record for a glyph: its pen calls separated
\* by single spaces.
RECURSIVE Joined(_)
Joined(calls) ==
    IF calls = << >> THEN << >>
    ELSE IF Len(calls) = 1 THEN calls
    ELSE <<Head(calls), " ">> \o Joined(Tail(calls))

\* C18: push_clip_glyph takes one clip id, writes a clipPath whose path is
\* the outline just recorded, and opens one group clipped to it.
C18_ClipGlyphOpensClip ==
    (Len(log) > 0 /\ Last.op = "push_clip_glyph" /\ ppc = "painting") =>
        /\ clip_path_index = Last.clip_path_index + 1
        /\ Depth = Last.depth + 1
        /\ Len(svg.doc) = Last.doc_len + 3
        /\ svg.doc[Last.doc_len + 1].tag = "clipPath"
        /\ svg.doc[Last.doc_len + 2].tag = "path"
        /\ svg.doc[Last.doc_len + 2].attrs.d = path_buf
        /\ LastElement.tag = "g"
        /\ LastElement.attrs.clip_path = svg.doc[Last.doc_len + 1].attrs.id

\* C19: after push_clip_glyph, outline_transform is the active transform and
\* the path buffer holds the glyph's outline (nothing for a glyph without
\* outline).
C19_ClipGlyphRecordsTransform ==
    (Len(log) > 0 /\ Last.op = "push_clip_glyph" /\ ppc = "painting") =>
        /\ outline_transform = transform
        /\ path_buf = Joined(PenCalls(Last.arg.glyph))

\* ======================================================================
\*                       properties: decorations
\* ======================================================================

DecorationKinds == {"overline", "underline", "line_through"}

NodesOf(s, kinds) ==
    {i \in 1..Len(new_children) :
        new_children[i].span = s /\ new_children[i].kind \in kinds}

\* C15: in every span the overline and underline nodes come before every
\* node made from the span's glyphs and the line_through node after them; a
\* finished span has one node per decoration it has, decoration nodes hold no
\* glyph and every outline glyph of a finished span is in a path node.
C15_DecorationsAroundGlyphs ==
    \A s \in 1..Len(text) :
        /\ \A i \in NodesOf(s, {"overline", "underline"}) :
              \A j \in NodesOf(s, {"path", "group"}) : i < j
        /\ \A i \in NodesOf(s, {"line_through"}) :
              \A j \in NodesOf(s, {"path", "group"}) : j < i
        /\ \A i \in NodesOf(s, DecorationKinds) : new_children[i].glyphs = << >>
        /\ Cardinality(NodesOf(s, {"overline"})) = IF text[s].overline THEN 1 ELSE 0
        /\ Cardinality(NodesOf(s, {"underline"})) = IF text[s].underline THEN 1 ELSE 0
        /\ s \in FinishedSpans =>
              /\ Cardinality(NodesOf(s, {"line_through"})) =
                    IF text[s].line_through THEN 1 ELSE 0
              /\ \A g \in 1..Len(text[s].glyphs) :
                    FirstAvailable(text[s].glyphs[g]) = "outline" =>
                        \E j \in NodesOf(s, {"path"}) :
                            g \in Range(new_children[j].glyphs)

\* A finished span with the three decorations, a group and a path flushed at
\* the end of the span.
C15_Witness ==
    /\ fpc = "spans"
    /\ Len(text) = 1
    /\ text[1].overline /\ text[1].underline /\ text[1].line_through
    /\ Len(new_children) = 5
    /\ new_children[1].kind = "overline"
    /\ new_children[2].kind = "underline"
    /\ new_children[3].kind = "group"
    /\ new_children[4].kind = "path"
    /\ new_children[5].kind = "line_through"

\* ======================================================================
\*                       properties: outline batches
\* ======================================================================

\* C21: the outline batch is empty when a span starts and when it has ended;
\* every glyph path node holds at least one glyph, only outline glyphs of
\* the span whose fill, stroke and paint order it carries, in their order,
\* and no glyph is in two nodes or in a node and in the open batch.
C21_BatchWithinSpan ==
    /\ fpc \in {"spans", "done"} => span_builder = << >>
    /\ (fpc = "glyphs" /\ text[Len(text)].glyphs = << >>) => span_builder = << >>
    /\ \A g \in Range(span_builder) :
          /\ fpc = "glyphs"
          /\ g \in 1..Len(text[Len(text)].glyphs)
          /\ FirstAvailable(text[Len(text)].glyphs[g]) = "outline"
    /\ \A i \in 1..Len(new_children) :
          new_children[i].kind = "path" =>
              LET n == new_children[i]
              IN  /\ n.glyphs # << >>
                  /\ n.span \in 1..Len(text)
                  /\ \A k \in 1..Len(n.glyphs) :
                        /\ n.glyphs[k] \in 1..Len(text[n.span].glyphs)
                        /\ FirstAvailable(text[n.span].glyphs[n.glyphs[k]]) = "outline"
                        /\ k > 1 => n.glyphs[k - 1] < n.glyphs[k]
                  /\ (n.span = Len(text) /\ fpc = "glyphs") =>
                        Range(n.glyphs) \cap Range(span_builder) = {}
                  /\ \A j \in 1..Len(new_children) :
                        (/\ j # i /\ new_children[j].kind = "path"
                         /\ new_children[j].span = n.span)
                            => Range(n.glyphs) \cap Range(new_children[j].glyphs) = {}

\* Two finished spans: the first flushes its batch before an svg glyph and
\* then flushes an empty batch at its end, the second has one outline glyph.
C21_Witness ==
    /\ fpc = "spans"
    /\ Len(text) = 2
    /\ text[1].glyphs = << {"outline"}, {"svg", "raster", "outline"} >>
    /\ text[2].glyphs = << {"outline"} >>
    /\ [i \in 1..Len(new_children) |->
          <<new_children[i].kind, new_children[i].span, new_children[i].glyphs>>]
       = << <<"path", 1, <<1>>>>, <<"group", 1, <<2>>>>, <<"path", 2, <<1>>>> >>
    /\ span_builder = << >>

\* ======================================================================
\*                  properties: frame of the callbacks
\* ======================================================================

\* The painter's fields and the number of open elements after the i-th
\* callback: what the next log entry recorded, or the current state.
After(i) ==
    IF i < Len(log)
    THEN [path_buf |-> log[i + 1].path_buf,
          outline_transform |-> log[i + 1].outline_transform,
          transform |-> log[i + 1].transform,
          transforms_stack |-> log[i + 1].transforms_stack,
          depth |-> log[i + 1].depth]
    ELSE [path_buf |-> path_buf, outline_transform |-> outline_transform,
          transform |-> transform, transforms_stack |-> transforms_stack,
          depth |-> Len(svg.depth_stack)]

\* C22: every callback other than push_clip_glyph leaves the path buffer and
\* the outline transform as they were, and a fill that returns also leaves
\* the active transform, the transform stack and the number of open elements.
C22_OutlineFrame ==
    \A i \in 1..Len(log) :
        /\ log[i].op # "push_clip_glyph" =>
              /\ After(i).path_buf = log[i].path_buf
              /\ After(i).outline_transform = log[i].outline_transform
        /\ log[i].op = "fill" =>
              /\ After(i).transform = log[i].transform
              /\ After(i).transforms_stack = log[i].transforms_stack
              /\ (i < Len(log) \/ ppc = "painting") => After(i).depth = log[i].depth

\* A glyph clipped under a translation and filled twice, by a gradient and
\* by a solid colour: both paths hold the recorded outline and transform.
C22_Witness ==
    /\ Len(log) = 4
    /\ log[1].op = "push_transform" /\ log[1].arg.ts = Translate
    /\ log[2].op = "push_clip_glyph" /\ log[2].arg.glyph = "tri"
    /\ log[3].op = "fill" /\ log[3].arg.brush.kind = "linear"
    /\ log[4].op = "fill" /\ log[4].arg.brush.kind = "solid"
    /\ ppc = "painting"
    /\ path_buf # << >>
    /\ outline_transform = Translate
    /\ Len(svg.doc) = log[4].doc_len + 1
    /\ svg.doc[log[4].doc_len].tag = "path"
    /\ svg.doc[log[4].doc_len].attrs.d = path_buf
    /\ LastElement.attrs.d = path_buf
    /\ LastElement.attrs.transform = Translate
    /\ svg.doc[log[4].doc_len].attrs.transform = Translate

\* ======================================================================
\*                 properties: one translation after another
\* ======================================================================

\* C23: every glyph translation starts with both counters at 1, identity
\* active and outline transforms and an empty path buffer, and a glyph
\* with the paint program of the glyph before it meets, callback by
\* callback, the state that glyph met, and ends with the same document.
C23_FreshStatePerGlyph ==
    /\ (ppc = "painting" /\ log = << >>) =>
          /\ gradient_index = 1
          /\ clip_path_index = 1
          /\ transform = Identity
          /\ outline_transform = Identity
          /\ path_buf = << >>
          /\ Len(svg.doc) = 2
    /\ trees # << >> =>
          /\ Len(log) <= Len(Program)
          /\ log = SubSeq(Program, 1, Len(log))
          /\ ppc # "panicked"
          /\ ppc = "done" => svg = trees[Len(trees)].svg

IdsIn(doc) == {doc[i].attrs.id : i \in 1..Len(doc)} \ {<< >>}

\* Two glyphs with a program that clips to a box and fills with a gradient:
\* both documents define cp1 and lg1.
C23_Witness ==
    /\ trees # << >>
    /\ ppc = "done"
    /\ Len(log) = 3
    /\ log[1].op = "push_clip_box"
    /\ log[2].op = "fill" /\ log[2].arg.brush.kind = "linear"
    /\ log[3].op = "pop_clip"
    /\ IdsIn(svg.doc) = {<<"cp", 1>>, <<"lg", 1>>}
    /\ IdsIn(trees[1].svg.doc) = IdsIn(svg.doc)
    /\ gradient_index = 2
    /\ clip_path_index = 2

\* ======================================================================
\*                  properties: wrapper group, gradient ids
\* ======================================================================

\* The elements colr() opens before paint(): the root and the glyph's group.
WrapperDepth == 2

\* Every pop_clip and pop_layer made so far closed a push of its kind.
Paired ==
    \A i \in 1..Len(log) :
        /\ log[i].op = "pop_clip" =>
              /\ log[i].match \in 1..(i - 1)
              /\ log[log[i].match].op \in {"push_clip_glyph", "push_clip_box"}
        /\ log[i].op = "pop_layer" =>
              /\ log[i].match \in 1..(i - 1)
              /\ log[log[i].match].op = "push_layer"

\* C24: while a correctly paired paint program is interpreted, the root and
\* the glyph's wrapper group stay open.
C24_WrapperStaysOpen ==
    (ppc = "painting" /\ Paired) => Depth >= WrapperDepth

\* The positions in the document of the gradient elements among the first k
\* elements.
GradientsUpTo(k) == {i \in 1..k : svg.doc[i].tag \in GradientTags}

\* The fills with a linear or radial brush among the callbacks made.
GradientFills ==
    {i \in 1..Len(log) :
        log[i].op = "fill" /\ log[i].arg.brush.kind \in {"linear", "radial"}}

\* The length of the document after the i-th callback.
DocLenAfter(i) == IF i < Len(log) THEN log[i + 1].doc_len ELSE Len(svg.doc)

\* C25: the k-th gradient element of the document has the number k, one was
\* written per linear or radial fill and the counter stands at their number
\* plus one; the path a gradient fill writes refers to the gradient the same
\* fill wrote; fills with other brushes take no number.
C25_GradientIdsDense ==
    /\ \A i \in GradientsUpTo(Len(svg.doc)) :
          svg.doc[i].attrs.id[2] = Cardinality(GradientsUpTo(i))
    /\ Cardinality(GradientsUpTo(Len(svg.doc))) = Cardinality(GradientFills)
    /\ gradient_index = Cardinality(GradientFills) + 1
    /\ \A i \in GradientFills :
          /\ svg.doc[log[i].doc_len + 1].tag \in GradientTags
          /\ svg.doc[log[i].doc_len + 1].attrs.id[2] = log[i].gradient_index
          /\ (i < Len(log) \/ ppc # "panicked") =>
                /\ svg.doc[DocLenAfter(i)].tag = "path"
                /\ svg.doc[DocLenAfter(i)].attrs.fill
                      = svg.doc[log[i].doc_len + 1].attrs.id
                /\ GradientsUpTo(DocLenAfter(i)) \ GradientsUpTo(log[i].doc_len)
                      = {log[i].doc_len + 1}
    /\ \A i \in 1..Len(log) :
          (log[i].op = "fill" /\ i \notin GradientFills) =>
              log[i].gradient_index =
                  IF i < Len(log) THEN log[i + 1].gradient_index ELSE gradient_index

\* A linear, a solid, a radial and a sweep fill: the gradients are lg1 and rg2.
C25_Witness ==
    /\ Len(log) = 4
    /\ log[1].op = "fill" /\ log[1].arg.brush.kind = "linear"
    /\ log[2].op = "fill" /\ log[2].arg.brush.kind = "solid"
    /\ log[3].op = "fill" /\ log[3].arg.brush.kind = "radial"
    /\ log[4].op = "fill" /\ log[4].arg.brush.kind = "sweep"
    /\ ppc = "painting"
    /\ IdsIn(svg.doc) = {<<"lg", 1>>, <<"rg", 2>>}
    /\ gradient_index = 3

====
